---- MODULE Spec2Model ----
(***************************************************************************)
(* Model of src/src/ledger_service/server.py: the notes store and the six  *)
(* request handlers registered on the MCP server.                          *)
(*                                                                         *)
(* A Python str is a sequence of tokens.  Text that comes from the client  *)
(* or from the ledger adapter is spelled one character per token; a        *)
(* literal of the source is kept as one token (newlines apart), and so is  *)
(* a tool, prompt or style name, which the code only compares for          *)
(* equality.  A Python value that may be None is a tagged record: PyNone,  *)
(* PyStr(s), PyDict(f), PyList(l).                                         *)
(***************************************************************************)
EXTENDS Integers, Sequences, FiniteSets, TLC

VARIABLES
    notes,      \* the module-level dict `notes`, as the sequence of its items in dict order
    session,    \* "Running" while server.run serves the streams, "Closed" after
    request,    \* the request being answered (the last one delivered to a handler)
    response,   \* what its handler returned or raised
    notified,   \* the send_resource_list_changed calls that handler made
    adapterLog, \* the ledger adapter calls that handler made
    served,     \* number of requests handled so far
    added,      \* history: name -> content of the last add-note that returned normally
    firstOrder  \* history: the names of validated add-notes, in order of first appearance

vars == <<notes, session, request, response, notified, adapterLog, served, added, firstOrder>>

\* Length of the request sequences explored.
MaxRequests == 3

NL == "\n"

-----------------------------------------------------------------------------
\* Python values

PyNone == [t |-> "None"]
PyStr(s) == [t |-> "str", v |-> s]
PyDict(f) == [t |-> "dict", v |-> f]
PyList(l) == [t |-> "list", v |-> l]

\* bool(x): None, "" , {} and [] are falsy.
Truthy(x) ==
    CASE x.t = "None" -> FALSE
      [] x.t = "str"  -> x.v # <<>>
      [] x.t = "dict" -> DOMAIN x.v # {}
      [] x.t = "list" -> x.v # <<>>

\* dict.get(key): the value, or None when the key is missing.
DictGet(d, key) == IF key \in DOMAIN d.v THEN d.v[key] ELSE PyNone

\* dict.get(key, default)
DictGetDefault(d, key, default) == IF key \in DOMAIN d.v THEN d.v[key] ELSE default

\* What an f-string replacement field renders a value as: str(None) is "None".
Format(x) == IF x.t = "None" THEN <<"N", "o", "n", "e">> ELSE x.v

\* The items of a sequence.
Range(q) == { q[i] : i \in 1..Len(q) }

\* sep.join(parts)
RECURSIVE Join(_, _)
Join(sep, parts) ==
    IF parts = <<>> THEN <<>>
    ELSE IF Len(parts) = 1 THEN parts[1]
    ELSE parts[1] \o sep \o Join(sep, Tail(parts))

\* The lines of a text: text.split("\n").
RECURSIVE SplitLines(_)
SplitLines(text) ==
    IF \A i \in 1..Len(text) : text[i] # NL THEN <<text>>
    ELSE LET k == CHOOSE i \in 1..Len(text) :
                      text[i] = NL /\ \A j \in 1..(i - 1) : text[j] # NL
         IN  <<SubSeq(text, 1, k - 1)>> \o SplitLines(SubSeq(text, k + 1, Len(text)))

\* s.lstrip(c): s without its leading run of c.
RECURSIVE LStrip(_, _)
LStrip(s, c) == IF s # <<>> /\ s[1] = c THEN LStrip(Tail(s), c) ELSE s

-----------------------------------------------------------------------------
\* pydantic's AnyUrl, as far as the server reads it (scheme, path).
\* A URL text is <<scheme, "://", host>> followed by the rest, one character
\* per token.

SpecialSchemes == {"http", "https", "ws", "wss", "ftp", "file"}

\* The parser lower-cases the scheme.
LowerScheme(s) ==
    CASE s = "NOTE" -> "note"
      [] s = "HTTP" -> "http"
      [] OTHER      -> s

\* The part of `rest` before the first "?" or "#".
RECURSIVE UpToQuery(_)
UpToQuery(rest) ==
    IF rest = <<>> \/ rest[1] \in {"?", "#"} THEN <<>>
    ELSE <<rest[1]>> \o UpToQuery(Tail(rest))

\* AnyUrl(text): .path is None when the URL has no path; a special scheme
\* always has at least the path "/".  str is the URL written back out.
AnyUrl(text) ==
    LET scheme == LowerScheme(text[1])
        rest   == SubSeq(text, 4, Len(text))
        raw    == UpToQuery(rest)
        slash  == IF raw = <<>> /\ scheme \in SpecialSchemes THEN <<"/">> ELSE <<>>
    IN  [scheme |-> scheme,
         host   |-> text[3],
         path   |-> IF raw \o slash # <<>> THEN PyStr(raw \o slash) ELSE PyNone,
         str    |-> <<scheme, "://", text[3]>> \o slash \o rest]

\* f"note://internal/{name}"
NoteUriText(name) == <<"note", "://", "internal", "/">> \o name

-----------------------------------------------------------------------------
\* The dict `notes`

Keys(d) == { d[i].name : i \in 1..Len(d) }

HasKey(d, k) == k \in Keys(d)

\* notes[k], for a key of the dict
Lookup(d, k) == d[CHOOSE i \in 1..Len(d) : d[i].name = k].content

\* notes[k] = c done as delete-then-insert: an existing key moves to the end.
DictSetMoveToEnd(d, k, c) ==
    LET keep == { i \in 1..Len(d) : d[i].name # k }
        RECURSIVE Others(_)
        Others(i) == IF i > Len(d) THEN <<>>
                     ELSE (IF i \in keep THEN <<d[i]>> ELSE <<>>) \o Others(i + 1)
    IN  Append(Others(1), [name |-> k, content |-> c])

\* notes[k] = c done as an append, whether or not the key is there.
DictSetAppendAlways(d, k, c) == Append(d, [name |-> k, content |-> c])

\* notes[k] = c: a new key goes last, an existing key keeps its place.
DictSet(d, k, c) ==
    IF HasKey(d, k)
    THEN [i \in 1..Len(d) |-> IF d[i].name = k THEN [name |-> k, content |-> c] ELSE d[i]]
    ELSE Append(d, [name |-> k, content |-> c])

-----------------------------------------------------------------------------
\* Handler results

Return(v) == [ok |-> TRUE, exc |-> "", body |-> v]
Raise(e, msg) == [ok |-> FALSE, exc |-> e, body |-> msg]

NoRequest == [kind |-> "none"]

TextContent(text) == [type |-> "text", text |-> text]

-----------------------------------------------------------------------------
\* handle_list_resources: one Resource per key of notes, in dict order.
ListResources(d) ==
    [i \in 1..Len(d) |->
        [uri         |-> AnyUrl(NoteUriText(d[i].name)),
         name        |-> <<"Note: ">> \o d[i].name,
         description |-> <<"A simple note named ">> \o d[i].name,
         mimeType    |-> <<"text/plain">>]]

\* handle_read_resource with the store lookup tried before the scheme check.
ReadResourceLookupFirst(d, uri) ==
    LET name == IF uri.path.t = "None" THEN <<>> ELSE LStrip(uri.path.v, "/")
    IN  IF HasKey(d, name) THEN Return(Lookup(d, name))
        ELSE IF uri.scheme # "note"
             THEN Raise("ValueError", <<"Unsupported URI scheme: ", uri.scheme>>)
             ELSE Raise("KeyError", <<"'">> \o name \o <<"'">>)

\* handle_read_resource(uri)
ReadResource(d, uri) ==
    IF uri.scheme # "note"
    THEN Raise("ValueError", <<"Unsupported URI scheme: ", uri.scheme>>)
    ELSE IF uri.path.t # "None"
         THEN LET name == LStrip(uri.path.v, "/")
              IN  IF HasKey(d, name)
                  THEN Return(Lookup(d, name))
                  ELSE Raise("KeyError", <<"'">> \o name \o <<"'">>)
         ELSE Raise("ValueError", <<"Note not found: ">> \o Format(uri.path))

\* f"- {name}: {content}" for name, content in notes.items()
PromptNoteLines(d) ==
    [i \in 1..Len(d) |-> <<"- ">> \o d[i].name \o <<": ">> \o d[i].content]

\* The first line of the prompt text.
InstructionLine(detail_prompt) ==
    <<"Here are the current notes to summarize:">> \o detail_prompt

\* The suffix given for every style but "brief".
DetailPromptUnlessBrief(style) ==
    IF style # PyStr(<<"brief">>) THEN <<" Give extensive details.">> ELSE <<>>

\* " Give extensive details." if style == "detailed" else ""
DetailPrompt(style) ==
    IF style = PyStr(<<"detailed">>) THEN <<" Give extensive details.">> ELSE <<>>

\* handle_get_prompt(name, arguments)
GetPrompt(d, name, arguments) ==
    IF name # "summarize-notes"
    THEN Raise("ValueError", <<"Unknown prompt: ", name>>)
    ELSE LET args  == IF Truthy(arguments) THEN arguments ELSE PyDict(<<>>)
             style == DictGetDefault(args, "style", PyStr(<<"brief">>))
             text  == InstructionLine(DetailPrompt(style)) \o <<NL, NL>>
                          \o Join(<<NL>>, PromptNoteLines(d))
         IN  Return([description |-> <<"Summarize the current notes">>,
                     messages    |-> <<[role    |-> "user",
                                        content |-> TextContent(text)]>>])

\* handle_list_prompts: the one prompt, with its optional style argument.
ListPrompts ==
    <<[name        |-> "summarize-notes",
       description |-> <<"Creates a summary of all notes">>,
       arguments   |-> <<[name        |-> "style",
                          description |-> <<"Style of the summary (brief/detailed)">>,
                          required    |-> FALSE]>>]>>

\* A Tool whose inputSchema has string properties, all of them required.
Tool(name, description, fields) ==
    [name        |-> name,
     description |-> description,
     inputSchema |-> [type       |-> "object",
                      properties |-> [f \in Range(fields) |-> [type |-> "string"]],
                      required   |-> fields]]

\* handle_list_tools: the three ledger tools.
ListTools ==
    <<Tool("list-accounts", <<"List all ledger accounts">>, <<"year">>),
      Tool("account-balance", <<"Get the balance of an account">>, <<"year", "account">>),
      Tool("account-register", <<"Get the register of an account">>, <<"year", "account">>)>>

-----------------------------------------------------------------------------
\* handle_call_tool(name, arguments).  sendOk says whether
\* send_resource_list_changed returns (TRUE) or raises; adapterResult is what
\* the ledger adapter returns or raises when called.  The result holds the
\* dict after the call, the notifications and adapter calls made, and what
\* the handler returned or raised.

Outcome(d, sent, calls, resp) ==
    [notes |-> d, notified |-> sent, adapterLog |-> calls, response |-> resp]

\* f"/Users/maksymprokopov/personal/ledger/{year}/experiment.ledger"
LedgerPath(year) ==
    <<"/Users/maksymprokopov/personal/ledger/">> \o Format(year) \o <<"/experiment.ledger">>

\* `for account in account_list`: a str yields its characters, a list its items.
Iterate(x) ==
    IF x.t = "str" THEN [i \in 1..Len(x.v) |-> <<x.v[i]>>] ELSE x.v

\* "\nLedger Accounts:\n" + "\n".join(f"- {account}" for account in account_list)
AccountsText(account_list) ==
    LET items == Iterate(account_list)
    IN  <<NL, "Ledger Accounts:", NL>>
            \o Join(<<NL>>, [i \in 1..Len(items) |-> <<"- ">> \o items[i]])

\* None.get raises AttributeError.
NoneGet == Raise("AttributeError", <<"'NoneType' object has no attribute 'get'">>)

\* The add-note branch with `if not note_name` alone as its second check.
AddNoteNoContentCheck(d, arguments, sendOk) ==
    IF ~Truthy(arguments)
    THEN Outcome(d, <<>>, <<>>, Raise("ValueError", <<"Missing arguments">>))
    ELSE LET note_name == DictGet(arguments, "name")
             content   == DictGet(arguments, "content")
             d2        == DictSet(d, note_name.v, Format(content))
         IN  IF ~Truthy(note_name)
             THEN Outcome(d, <<>>, <<>>, Raise("ValueError", <<"Missing name or content">>))
             ELSE Outcome(d2, <<[seen |-> d2, delivered |-> sendOk]>>, <<>>,
                          IF sendOk
                          THEN Return(<<TextContent(<<"Added note '">> \o Format(note_name)
                                    \o <<"' with content: ">> \o Format(content))>>)
                          ELSE Raise("BrokenResourceError", <<>>))

\* The add-note branch writing the note before it checks name and content.
AddNoteWriteFirst(d, arguments, sendOk) ==
    IF ~Truthy(arguments)
    THEN Outcome(d, <<>>, <<>>, Raise("ValueError", <<"Missing arguments">>))
    ELSE LET note_name == DictGet(arguments, "name")
             content   == DictGet(arguments, "content")
             d2        == DictSet(d, Format(note_name), Format(content))
         IN  IF ~Truthy(note_name) \/ ~Truthy(content)
             THEN Outcome(d2, <<>>, <<>>, Raise("ValueError", <<"Missing name or content">>))
             ELSE Outcome(d2, <<[seen |-> d2, delivered |-> sendOk]>>, <<>>,
                          IF sendOk
                          THEN Return(<<TextContent(<<"Added note '">> \o Format(note_name)
                                    \o <<"' with content: ">> \o Format(content))>>)
                          ELSE Raise("BrokenResourceError", <<>>))

\* The add-note branch sending the notification before it writes the note.
AddNoteNotifyFirst(d, arguments, sendOk) ==
    IF ~Truthy(arguments)
    THEN Outcome(d, <<>>, <<>>, Raise("ValueError", <<"Missing arguments">>))
    ELSE LET note_name == DictGet(arguments, "name")
             content   == DictGet(arguments, "content")
         IN  IF ~Truthy(note_name) \/ ~Truthy(content)
             THEN Outcome(d, <<>>, <<>>, Raise("ValueError", <<"Missing name or content">>))
             ELSE Outcome(DictSet(d, note_name.v, content.v),
                          <<[seen |-> d, delivered |-> sendOk]>>,
                          <<>>,
                          IF sendOk
                          THEN Return(<<TextContent(<<"Added note '">> \o Format(note_name)
                                    \o <<"' with content: ">> \o Format(content))>>)
                          ELSE Raise("BrokenResourceError", <<>>))

\* The add-note branch.
AddNote(d, arguments, sendOk) ==
    IF ~Truthy(arguments)
    THEN Outcome(d, <<>>, <<>>, Raise("ValueError", <<"Missing arguments">>))
    ELSE LET note_name == DictGet(arguments, "name")
             content   == DictGet(arguments, "content")
         IN  IF ~Truthy(note_name) \/ ~Truthy(content)
             THEN Outcome(d, <<>>, <<>>, Raise("ValueError", <<"Missing name or content">>))
             ELSE LET d2 == DictSet(d, note_name.v, content.v)
                  IN  Outcome(d2,
                              <<[seen |-> d2, delivered |-> sendOk]>>,
                              <<>>,
                              IF sendOk
                              THEN Return(<<TextContent(<<"Added note '">> \o Format(note_name)
                                        \o <<"' with content: ">> \o Format(content))>>)
                              ELSE Raise("BrokenResourceError", <<>>))

\* The list-accounts branch.
ListAccounts(d, arguments, adapterResult) ==
    IF arguments.t = "None" THEN Outcome(d, <<>>, <<>>, NoneGet)
    ELSE LET year == DictGet(arguments, "year")
             call == [fn |-> "fetch_accounts", path |-> LedgerPath(year),
                      account |-> PyNone, result |-> adapterResult]
         IN  Outcome(d, <<>>, <<call>>,
                     IF adapterResult.ok
                     THEN Return(<<TextContent(AccountsText(adapterResult.body))>>)
                     ELSE adapterResult)

\* The account branches catching the adapter's failure and answering with text.
AccountQuerySwallowing(d, fn, prefix, arguments, adapterResult) ==
    IF arguments.t = "None" THEN Outcome(d, <<>>, <<>>, NoneGet)
    ELSE LET year    == DictGet(arguments, "year")
             account == DictGet(arguments, "account")
             call    == [fn |-> fn, path |-> LedgerPath(year),
                         account |-> account, result |-> adapterResult]
         IN  Outcome(d, <<>>, <<call>>,
                     Return(<<TextContent(prefix \o Format(account) \o <<" is ">>
                               \o (IF adapterResult.ok THEN Format(adapterResult.body)
                                    ELSE <<"unavailable">>))>>))

\* The account-balance and account-register branches.
AccountQuery(d, fn, prefix, arguments, adapterResult) ==
    IF arguments.t = "None" THEN Outcome(d, <<>>, <<>>, NoneGet)
    ELSE LET year    == DictGet(arguments, "year")
             account == DictGet(arguments, "account")
             call    == [fn |-> fn, path |-> LedgerPath(year),
                         account |-> account, result |-> adapterResult]
         IN  Outcome(d, <<>>, <<call>>,
                     IF adapterResult.ok
                     THEN Return(<<TextContent(prefix \o Format(account)
                               \o <<" is ">> \o Format(adapterResult.body))>>)
                     ELSE adapterResult)

\* handle_call_tool comparing the tool name without regard to case.
CallToolAnyCase(d, name, arguments, sendOk, adapterResult) ==
    CASE name \in {"add-note", "Add-Note"} -> AddNote(d, arguments, sendOk)
      [] name = "list-accounts"    -> ListAccounts(d, arguments, adapterResult)
      [] name = "account-balance"  ->
            AccountQuery(d, "get_account_balance", <<"The balance of ">>, arguments, adapterResult)
      [] name = "account-register" ->
            AccountQuery(d, "get_account_register", <<"The register of ">>, arguments, adapterResult)
      [] OTHER -> Outcome(d, <<>>, <<>>, Raise("ValueError", <<"Unknown tool: ", name>>))

CallTool(d, name, arguments, sendOk, adapterResult) ==
    CASE name = "add-note"         -> AddNote(d, arguments, sendOk)
      [] name = "list-accounts"    -> ListAccounts(d, arguments, adapterResult)
      [] name = "account-balance"  ->
            AccountQuery(d, "get_account_balance", <<"The balance of ">>, arguments, adapterResult)
      [] name = "account-register" ->
            AccountQuery(d, "get_account_register", <<"The register of ">>, arguments, adapterResult)
      [] OTHER -> Outcome(d, <<>>, <<>>, Raise("ValueError", <<"Unknown tool: ", name>>))

-----------------------------------------------------------------------------
\* What the client and the ledger adapter may send.

NoteNames == { <<"a">>, <<"b">>, <<"/", "a">> }
NameInputs == NoteNames \cup { <<>> }
ContentInputs == { <<>>, <<"y">>, <<"z">> }

\* A dict from its items.
Dict1(k, x) == PyDict([key \in {k} |-> x])
Dict2(k1, x1, k2, x2) == PyDict([key \in {k1, k2} |-> IF key = k1 THEN x1 ELSE x2])
EmptyDict == PyDict(<<>>)

AddNoteArguments ==
    {PyNone, EmptyDict}
        \cup { Dict1("name", PyStr(n)) : n \in NameInputs }
        \cup { Dict1("content", PyStr(c)) : c \in ContentInputs }
        \cup { Dict2("name", PyStr(n), "content", PyStr(c)) :
                  n \in NameInputs, c \in ContentInputs }

Year == <<"2", "4">>
Account == <<"A">>

LedgerArguments ==
    {PyNone, EmptyDict,
     Dict1("year", PyStr(Year)),
     Dict1("account", PyStr(Account)),
     Dict2("year", PyStr(Year), "account", PyStr(Account))}

ToolNames ==
    {"add-note", "list-accounts", "account-balance", "account-register",
     "delete-note", "Add-Note"}

KnownTools == {"add-note", "list-accounts", "account-balance", "account-register"}

ArgumentsFor(name) ==
    IF name = "add-note" THEN AddNoteArguments
    ELSE IF name \in KnownTools THEN LedgerArguments
    ELSE {PyNone, EmptyDict, Dict1("year", PyStr(Year)),
          Dict2("name", PyStr(<<"a">>), "content", PyStr(<<"y">>))}

AdapterFailure == Raise("FileNotFoundError", <<"ledger">>)

\* fetch_accounts: the account names as one newline-separated str, or as a
\* list of names, or a failure.
AccountsResults ==
    {Return(PyStr(<<"A", "B", NL, "C">>)),
     Return(PyStr(<<"A">>)),
     Return(PyList(<< <<"A", "B">>, <<"C">> >>)),
     AdapterFailure}

\* get_account_balance / get_account_register: formatted text, or a failure.
QueryResults == {Return(PyStr(<<"$", "1">>)), AdapterFailure}

\* The adapter outcomes that matter to a tool: none to a tool that has no
\* branch calling the adapter.
ResultsFor(name) ==
    IF name = "list-accounts" THEN AccountsResults
    ELSE IF name \in {"account-balance", "account-register"} THEN QueryResults
    ELSE {AdapterFailure}

\* Whether send_resource_list_changed returns or raises: only add-note sends.
SendOutcomes(name) == IF name = "add-note" THEN BOOLEAN ELSE {TRUE}

UriTexts ==
    { NoteUriText(n) : n \in NameInputs }
        \cup { <<"note", "://", "internal">>,
               <<"note", "://", "internal", "/", "a", "?", "b">>,
               <<"NOTE", "://", "internal", "/", "a">>,
               <<"http", "://", "internal", "/", "a">>,
               <<"http", "://", "internal">>,
               <<"notes", "://", "internal", "/", "a">> }

PromptNames == {"summarize-notes", "summarise-notes"}

PromptArguments ==
    {PyNone, EmptyDict,
     Dict1("style", PyStr(<<"brief">>)),
     Dict1("style", PyStr(<<"detailed">>)),
     Dict1("style", PyStr(<<"Detailed">>)),
     Dict1("tone", PyStr(<<"detailed">>))}

-----------------------------------------------------------------------------
\* History kept beside the program's state.

\* An add-note request that carries a non-empty name and a non-empty content.
ValidAddNote(req) ==
    /\ req.kind = "call-tool"
    /\ req.name = "add-note"
    /\ req.arguments.t = "dict"
    /\ {"name", "content"} \subseteq DOMAIN req.arguments.v
    /\ req.arguments.v["name"].v # <<>>
    /\ req.arguments.v["content"].v # <<>>

NoteNameOf(req) == req.arguments.v["name"].v
ContentOf(req) == req.arguments.v["content"].v

Record(req, resp) ==
    /\ request' = req
    /\ response' = resp
    /\ served' = served + 1
    /\ added' = IF ValidAddNote(req) /\ resp.ok
                THEN [n \in DOMAIN added \cup {NoteNameOf(req)} |->
                         IF n = NoteNameOf(req) THEN ContentOf(req) ELSE added[n]]
                ELSE added
    /\ firstOrder' = IF ValidAddNote(req) /\ NoteNameOf(req) \notin Range(firstOrder)
                     THEN Append(firstOrder, NoteNameOf(req))
                     ELSE firstOrder

Accepting == session = "Running" /\ served < MaxRequests

-----------------------------------------------------------------------------
\* The state after the module is loaded and main() has entered server.run.
Init ==
    /\ notes = <<>>
    /\ session = "Running"
    /\ request = NoRequest
    /\ response = Return(<<>>)
    /\ notified = <<>>
    /\ adapterLog = <<>>
    /\ served = 0
    /\ added = <<>>
    /\ firstOrder = <<>>

HandleListResources ==
    /\ Accepting
    /\ Record([kind |-> "list-resources"], Return(ListResources(notes)))
    /\ notified' = <<>>
    /\ adapterLog' = <<>>
    /\ UNCHANGED <<notes, session>>

HandleReadResource ==
    /\ Accepting
    /\ \E text \in UriTexts :
          Record([kind |-> "read-resource", uri |-> text],
                 ReadResource(notes, AnyUrl(text)))
    /\ notified' = <<>>
    /\ adapterLog' = <<>>
    /\ UNCHANGED <<notes, session>>

HandleListPrompts ==
    /\ Accepting
    /\ Record([kind |-> "list-prompts"], Return(ListPrompts))
    /\ notified' = <<>>
    /\ adapterLog' = <<>>
    /\ UNCHANGED <<notes, session>>

HandleListTools ==
    /\ Accepting
    /\ Record([kind |-> "list-tools"], Return(ListTools))
    /\ notified' = <<>>
    /\ adapterLog' = <<>>
    /\ UNCHANGED <<notes, session>>

HandleGetPrompt ==
    /\ Accepting
    /\ \E name \in PromptNames, arguments \in PromptArguments :
          Record([kind |-> "get-prompt", name |-> name, arguments |-> arguments],
                 GetPrompt(notes, name, arguments))
    /\ notified' = <<>>
    /\ adapterLog' = <<>>
    /\ UNCHANGED <<notes, session>>

HandleCallTool ==
    /\ Accepting
    /\ \E name \in ToolNames :
       \E arguments \in ArgumentsFor(name), sendOk \in SendOutcomes(name),
          adapterResult \in ResultsFor(name) :
          LET out == CallTool(notes, name, arguments, sendOk, adapterResult)
          IN  /\ Record([kind |-> "call-tool", name |-> name, arguments |-> arguments],
                        out.response)
              /\ notes' = out.notes
              /\ notified' = out.notified
              /\ adapterLog' = out.adapterLog
    /\ UNCHANGED session

\* The read stream ends: server.run returns and main() leaves the streams.
Close ==
    /\ session = "Running"
    /\ session' = "Closed"
    /\ UNCHANGED <<notes, request, response, notified, adapterLog, served, added, firstOrder>>

Next ==
    \/ HandleListResources
    \/ HandleReadResource
    \/ HandleListPrompts
    \/ HandleGetPrompt
    \/ HandleListTools
    \/ HandleCallTool
    \/ Close

Spec == Init /\ [][Next]_vars

-----------------------------------------------------------------------------
\* The error kinds of the specification, told apart by the exception a
\* handler raises and the literal its message starts with.  An exception the
\* handlers do not raise themselves keeps its own name.
ErrorKind(resp) ==
    IF resp.ok THEN "none"
    ELSE IF resp.exc = "ValueError" /\ resp.body # <<>>
         THEN CASE resp.body[1] = "Unknown tool: "           -> "UnknownToolError"
                [] resp.body[1] = "Unknown prompt: "         -> "UnknownPromptError"
                [] resp.body[1] = "Missing arguments"        -> "InvalidArgumentsError"
                [] resp.body[1] = "Missing name or content"  -> "InvalidArgumentsError"
                [] resp.body[1] = "Unsupported URI scheme: " -> "UnsupportedSchemeError"
                [] resp.body[1] = "Note not found: "         -> "NotFoundError"
                [] OTHER                                     -> "ValueError"
         ELSE resp.exc

\* A handler has just answered a request.
Handled == served' = served + 1

IsCallTool(req, name) == req.kind = "call-tool" /\ req.name = name

\* The resource descriptors list a note named x under note://internal/x.
Listed(d, x) ==
    \E i \in 1..Len(ListResources(d)) :
        ListResources(d)[i].uri = AnyUrl(NoteUriText(x))

-----------------------------------------------------------------------------
\* C1: every note name x whose last add-note that returned normally carried
\* content y is read back as exactly y through note://internal/x, and is
\* listed under that uri, in every later state.
C1_ReadBackWhatWasAdded ==
    \A x \in DOMAIN added :
        /\ ReadResource(notes, AnyUrl(NoteUriText(x))) = Return(added[x])
        /\ Listed(notes, x)

\* C2: an add-note whose arguments are absent or empty, or whose name or
\* content is missing or empty, raises the invalid-arguments error, leaves
\* the notes as they were and sends no notification.
C2_InvalidAddNoteRejected ==
    [][(Handled /\ IsCallTool(request', "add-note") /\ ~ValidAddNote(request'))
          => /\ ErrorKind(response') = "InvalidArgumentsError"
             /\ notes' = notes
             /\ notified' = <<>>]_vars

C2_Witness ==
    /\ IsCallTool(request, "add-note")
    /\ request.arguments.t = "dict"
    /\ DOMAIN request.arguments.v = {"name"}
    /\ request.arguments.v["name"].v # <<>>
    /\ ErrorKind(response) = "InvalidArgumentsError"
    /\ notes # <<>>

\* C3: a call-tool whose name is none of the four tools raises
\* "Unknown tool: <name>" whatever its arguments, leaves the notes as they
\* were and sends no notification.
C3_UnknownToolRejected ==
    [][(Handled /\ request'.kind = "call-tool" /\ request'.name \notin KnownTools)
          => /\ response' = Raise("ValueError", <<"Unknown tool: ", request'.name>>)
             /\ ErrorKind(response') = "UnknownToolError"
             /\ notes' = notes
             /\ notified' = <<>>]_vars

C3_Witness ==
    /\ request.kind = "call-tool"
    /\ request.name = "Add-Note"
    /\ ValidAddNote([request EXCEPT !.name = "add-note"])
    /\ ErrorKind(response) = "UnknownToolError"
    /\ notes # <<>>

\* The note name a URI carries: its path with the leading "/" stripped.
NameOfUri(uri) == IF uri.path.t = "None" THEN <<>> ELSE LStrip(uri.path.v, "/")

\* C4: reading a note-scheme URI whose name is empty, absent or not a key of
\* the notes raises the not-found error; otherwise it returns the note's
\* content.
C4_MissingNoteIsNotFound ==
    (request.kind = "read-resource" /\ AnyUrl(request.uri).scheme = "note")
        => LET name == NameOfUri(AnyUrl(request.uri))
           IN  IF name = <<>> \/ ~HasKey(notes, name)
               THEN ErrorKind(response) = "NotFoundError"
               ELSE response = Return(Lookup(notes, name))

\* C5: reading a URI whose scheme is not "note" raises the unsupported-scheme
\* error, whatever the path and the notes, also when the path names a note.
C5_OtherSchemeRejected ==
    (request.kind = "read-resource" /\ AnyUrl(request.uri).scheme # "note")
        => /\ ErrorKind(response) = "UnsupportedSchemeError"
           /\ response = Raise("ValueError",
                               <<"Unsupported URI scheme: ", AnyUrl(request.uri).scheme>>)

C5_Witness ==
    /\ request.kind = "read-resource"
    /\ AnyUrl(request.uri).scheme = "http"
    /\ HasKey(notes, NameOfUri(AnyUrl(request.uri)))
    /\ ErrorKind(response) = "UnsupportedSchemeError"

\* The names that listResources shows, in its order.
ListedNames(d) == [i \in 1..Len(ListResources(d)) |-> Tail(ListResources(d)[i].name)]

\* The text of the summarize-notes prompt rendered from d.
PromptText(d, arguments) ==
    GetPrompt(d, "summarize-notes", arguments).body.messages[1].content.text

\* The note lines of a prompt text: what follows the instruction line and the
\* blank line (nothing, when that is one empty line).
NoteLinesOf(text) ==
    LET ls   == SplitLines(text)
        rest == SubSeq(ls, 3, Len(ls))
    IN  IF rest = << <<>> >> THEN <<>> ELSE rest

\* C6: listResources and the note lines of the summarize-notes prompt both
\* enumerate the stored notes in the order in which their names were first
\* added, and so agree with each other.
C6_ListingsInInsertionOrder ==
    /\ ListedNames(notes) = firstOrder
    /\ NoteLinesOf(PromptText(notes, PyNone))
          = [i \in 1..Len(firstOrder) |->
                <<"- ">> \o firstOrder[i] \o <<": ">> \o Lookup(notes, firstOrder[i])]

C6_Witness ==
    /\ Len(firstOrder) >= 2
    /\ ValidAddNote(request)
    /\ NoteNameOf(request) = firstOrder[1]
    /\ ListedNames(notes) = firstOrder

\* C7: a list-accounts call with a year, to which the adapter returns
\* newline-separated account names, answers with the header followed by one
\* "- <account>" line per line of the adapter's output, in its order.
C7_OneLinePerAccountLine ==
    (/\ IsCallTool(request, "list-accounts")
     /\ request.arguments.t = "dict"
     /\ "year" \in DOMAIN request.arguments.v
     /\ adapterLog # <<>>
     /\ adapterLog[1].result.ok
     /\ adapterLog[1].result.body.t = "str")
        => LET raw == SplitLines(adapterLog[1].result.body.v)
           IN  response = Return(<<TextContent(
                   <<NL, "Ledger Accounts:", NL>>
                       \o Join(<<NL>>, [i \in 1..Len(raw) |-> <<"- ">> \o raw[i]]))>>)

\* The fields a ledger tool requires.
RequiredFields(name) == IF name = "list-accounts" THEN {"year"} ELSE {"year", "account"}

\* C8: a ledger tool call whose arguments are absent or lack a required field
\* raises the invalid-arguments error without the adapter being called.
C8_LedgerArgumentsValidated ==
    (/\ request.kind = "call-tool"
     /\ request.name \in {"list-accounts", "account-balance", "account-register"}
     /\ \/ request.arguments.t = "None"
        \/ ~(RequiredFields(request.name) \subseteq DOMAIN request.arguments.v))
        => /\ ErrorKind(response) = "InvalidArgumentsError"
           /\ adapterLog = <<>>

\* C9: a valid add-note whose notification cannot be delivered still returns
\* its "Added note ..." text block, and the note is in the notes.
C9_NotifyFailureIsNotAnError ==
    (/\ ValidAddNote(request)
     /\ notified # <<>>
     /\ ~notified[1].delivered)
        => /\ response = Return(<<TextContent(<<"Added note '">> \o NoteNameOf(request)
                              \o <<"' with content: ">> \o ContentOf(request))>>)
           /\ HasKey(notes, NoteNameOf(request))
           /\ Lookup(notes, NoteNameOf(request)) = ContentOf(request)

\* The arguments hold style == "detailed".
StyleIsDetailed(arguments) ==
    /\ arguments.t = "dict"
    /\ "style" \in DOMAIN arguments.v
    /\ arguments.v["style"] = PyStr(<<"detailed">>)

EndsWith(s, suffix) ==
    /\ Len(s) >= Len(suffix)
    /\ SubSeq(s, Len(s) - Len(suffix) + 1, Len(s)) = suffix

\* C10: the instruction line of the summarize-notes prompt ends with
\* " Give extensive details." exactly when the arguments hold style ==
\* "detailed", and has no suffix otherwise; any other prompt name raises the
\* unknown-prompt error.
C10_DetailSuffixIffDetailed ==
    request.kind = "get-prompt"
        => IF request.name = "summarize-notes"
           THEN /\ response.ok
                /\ LET line == SplitLines(response.body.messages[1].content.text)[1]
                   IN  IF StyleIsDetailed(request.arguments)
                       THEN line = <<"Here are the current notes to summarize:",
                                     " Give extensive details.">>
                       ELSE /\ line = <<"Here are the current notes to summarize:">>
                            /\ ~EndsWith(line, <<" Give extensive details.">>)
           ELSE /\ ErrorKind(response) = "UnknownPromptError"
                /\ response = Raise("ValueError", <<"Unknown prompt: ", request.name>>)

C10_Witness ==
    /\ request.kind = "get-prompt"
    /\ request.name = "summarize-notes"
    /\ StyleIsDetailed(request.arguments)
    /\ response.ok
    /\ notes # <<>>
    /\ EndsWith(SplitLines(response.body.messages[1].content.text)[1],
                <<" Give extensive details.">>)

-----------------------------------------------------------------------------
\* The failure of a request as the specification names it: the adapter's own
\* failure coming out of the handler is the adapter error.
FailureKind(resp, log) ==
    IF ~resp.ok /\ log # <<>> /\ ~log[1].result.ok /\ resp = log[1].result
    THEN "AdapterError"
    ELSE ErrorKind(resp)

ErrorKinds ==
    {"UnknownToolError", "UnknownPromptError", "InvalidArgumentsError",
     "UnsupportedSchemeError", "NotFoundError", "AdapterError"}

\* C11: a request that fails with one of the six error kinds leaves the
\* session Running and the notes as they were, and from the state it leaves
\* the next request of every kind is accepted.
C11_FailureLeavesSessionAndNotes ==
    /\ [][(Handled /\ FailureKind(response', adapterLog') \in ErrorKinds)
             => /\ session' = "Running"
                /\ notes' = notes]_vars
    /\ []((/\ FailureKind(response, adapterLog) \in ErrorKinds
           /\ session = "Running"
           /\ served < MaxRequests)
             => /\ ENABLED HandleListResources
                /\ ENABLED HandleReadResource
                /\ ENABLED HandleGetPrompt
                /\ ENABLED HandleCallTool)

C11_Witness ==
    /\ IsCallTool(request, "add-note")
    /\ FailureKind(response, adapterLog) = "InvalidArgumentsError"
    /\ session = "Running"
    /\ served < MaxRequests
    /\ Len(notes) = 1

\* C12: when the adapter fails during a ledger tool, the call fails with that
\* same failure, the adapter has been called once, and the notes are as they
\* were.
C12_AdapterFailurePropagates ==
    [][(Handled /\ adapterLog' # <<>> /\ ~adapterLog'[1].result.ok)
          => /\ response' = adapterLog'[1].result
             /\ ~response'.ok
             /\ Len(adapterLog') = 1
             /\ notes' = notes
             /\ notified' = <<>>]_vars

C12_Witness ==
    /\ IsCallTool(request, "account-balance")
    /\ adapterLog # <<>>
    /\ adapterLog[1].result = AdapterFailure
    /\ response = AdapterFailure
    /\ notes # <<>>

\* C13: the request just answered dispatched exactly one notification if it
\* is an add-note that passes validation and none otherwise, and the notes
\* seen at the dispatch already hold that add-note's write.
C13_OneNotificationAfterWrite ==
    /\ Len(notified) = (IF ValidAddNote(request) THEN 1 ELSE 0)
    /\ \A i \in 1..Len(notified) :
          /\ HasKey(notified[i].seen, NoteNameOf(request))
          /\ Lookup(notified[i].seen, NoteNameOf(request)) = ContentOf(request)
          /\ notified[i].seen = notes

C13_Witness ==
    /\ ValidAddNote(request)
    /\ served = 3
    /\ Len(notes) = 2
    /\ NoteNameOf(request) = notes[1].name
    /\ Len(notified) = 1
    /\ notified[1].seen = notes

\* Every note of d other than the one named x is in d2 at the same position
\* with the same name and content.
OthersKept(d, d2, x) ==
    /\ Len(d2) >= Len(d)
    /\ \A i \in 1..Len(d) : d[i].name # x => d2[i] = d[i]

\* C15: only a successful add-note changes the notes, and it changes only the
\* entry of its own name; every other request leaves each note's name,
\* content and position as they were and sends no notification.
C15_OnlySuccessfulAddNoteWrites ==
    [][Handled
          => /\ (notes' # notes) => (ValidAddNote(request') /\ response'.ok)
             /\ (ValidAddNote(request') /\ response'.ok)
                   => OthersKept(notes, notes', NoteNameOf(request'))
             /\ ~IsCallTool(request', "add-note")
                   => (notes' = notes /\ notified' = <<>>)]_vars

\* The positions of d that hold the name x.
PositionsOf(d, x) == { i \in 1..Len(d) : d[i].name = x }

\* C16: an add-note for a name that is already stored leaves exactly one
\* entry for that name, at the position it had, now holding the new content;
\* the other notes are untouched and listResources shows one descriptor for
\* the name.
C16_OverwriteKeepsPlace ==
    [][(Handled /\ ValidAddNote(request') /\ HasKey(notes, NoteNameOf(request')))
          => LET x == NoteNameOf(request')
             IN  /\ PositionsOf(notes', x) = PositionsOf(notes, x)
                 /\ Cardinality(PositionsOf(notes', x)) = 1
                 /\ Lookup(notes', x) = ContentOf(request')
                 /\ Len(notes') = Len(notes)
                 /\ OthersKept(notes, notes', x)
                 /\ Cardinality({ i \in 1..Len(ListResources(notes')) :
                        ListResources(notes')[i].uri = AnyUrl(NoteUriText(x)) }) = 1]_vars

C16_Witness ==
    /\ ValidAddNote(request)
    /\ served = 3
    /\ firstOrder = << <<"a">>, <<"b">> >>
    /\ NoteNameOf(request) = <<"a">>
    /\ ContentOf(request) = <<"z">>
    /\ notes = <<[name |-> <<"a">>, content |-> <<"z">>],
                 [name |-> <<"b">>, content |-> <<"y">>]>>

\* C17: listResources returns one descriptor per stored note, in order, with
\* uri note://internal/<name> and name "Note: <name>", and reading the uri
\* of a descriptor returns the content of that same note.
C17_ListedUrisReadBack ==
    LET listed == ListResources(notes)
    IN  /\ Len(listed) = Len(notes)
        /\ \A i \in 1..Len(listed) :
              /\ listed[i].uri = AnyUrl(NoteUriText(notes[i].name))
              /\ listed[i].name = <<"Note: ">> \o notes[i].name
              /\ ReadResource(notes, AnyUrl(listed[i].uri.str)) = Return(notes[i].content)

\* C18: every stored note has a non-empty name and a non-empty content, and
\* no step removes a name from the notes.
C18_NotesNonEmptyAndKept ==
    /\ [](\A i \in 1..Len(notes) : notes[i].name # <<>> /\ notes[i].content # <<>>)
    /\ [][Keys(notes) \subseteq Keys(notes')]_vars

C18_Witness ==
    /\ Len(notes) = 3
    /\ Keys(notes) = NoteNames
    /\ \A i \in 1..Len(notes) : notes[i].content # <<>>

====
